---- MODULE Spec2Model ----
(***************************************************************************)
(* Model of quickstep::IndexScheme (catalog/IndexScheme.hpp): the          *)
(* per-relation registry that maps an index name to the list of            *)
(* IndexSubBlockDescriptions that back it.                                 *)
(*                                                                         *)
(* index_map_ is a std::unordered_map, modelled as a function whose domain *)
(* is the set of keys, together with iter_order, the order in which the    *)
(* hash table currently enumerates its keys (unspecified by the standard,  *)
(* so an insertion may leave the keys in any order).                       *)
(***************************************************************************)
EXTENDS Integers, Sequences, FiniteSets, TLC

\* Longest description list a caller passes to addIndexMapEntry.
MaxDescs == 2

\* Index names callers pass (std::string, compared exactly).
IndexNames == {"idx1", "idx2"}

\* Names for the runs about the name argument itself: the empty string and
\* two names that differ only in case.
CaseNames == {"", "idx1", "IDX1"}

\* IndexSubBlockType tags and the other parameters of a description.
SubBlockTypes == {"CSB_TREE", "SMA"}
AttributeIds == {0, 1}

IndexSubBlockDescription ==
  [sub_block_type : SubBlockTypes, indexed_attribute_ids : AttributeIds]

DescriptionLists ==
  UNION {[1..k -> IndexSubBlockDescription] : k \in 0..MaxDescs}

\* The lists passed in the statement-by-statement runs: the copy loop does not
\* look inside a description, so one attribute id is enough there.
StepLists ==
  {d \in DescriptionLists : \A i \in DOMAIN d : d[i].indexed_attribute_ids = 0}

\* The lists passed in the runs over CaseNames: empty or a single description.
ShortLists == {<<>>} \cup {<<d>> : d \in IndexSubBlockDescription}

VARIABLES
  index_map_,          \* the registry: index name -> list of descriptions
  iter_order,          \* order in which index_map_ enumerates its keys
  op,                  \* the member function called last
  index_name,          \* its index_name argument
  index_description,   \* its index_description argument (as a list of 0 or 1)
  ret_bool,            \* its bool return value
  ret_size,            \* its std::size_t return value
  ret_proto,           \* the serialization::IndexScheme it returned
  ret_scheme,          \* the index_map_ of the IndexScheme it returned
  succeeded,           \* history: <<name, list>> of every addIndexMapEntry call
                       \* that returned true
  threads,             \* per thread: its position in addIndexMapEntry, the
                       \* arguments and locals of the call, the value returned
  lock,                \* holder of the owner's mutex, or NoThread
  assign_log           \* history: the threads that executed line 168, in order

vars == <<index_map_, iter_order, op, index_name, index_description,
          ret_bool, ret_size, ret_proto, ret_scheme, succeeded,
          threads, lock, assign_log>>

\* Left alone by the calls that run addIndexMapEntry and the queries whole.
thread_vars == <<threads, lock, assign_log>>

\* Threads calling addIndexMapEntry one statement at a time.
Threads == {"t1", "t2"}
NoThread == "none"

\* A thread that has not called yet.
IdleThread ==
  [pc |-> "idle", index_name |-> "", index_descriptions |-> <<>>,
   index_sub_block_descriptions |-> <<>>, i |-> 0, ret |-> FALSE]

EmptyMap == [n \in {} |-> <<>>]
NoDescs == <<>>
NoProto == <<>>

\* All enumeration orders of a set of keys.
Orders(keys) ==
  {s \in [1..Cardinality(keys) -> keys] : \A i, j \in DOMAIN s : i # j => s[i] # s[j]}

----
\* Variant of getNumIndices that counts stored descriptions instead of keys.
getNumIndicesCountsDescriptions(map) ==
  Cardinality(UNION {{<<k, i>> : i \in DOMAIN map[k]} : k \in DOMAIN map})

\* getNumIndices(): index_map_.size()
getNumIndices(map) == Cardinality(DOMAIN map)

\* Variant of hasIndexWithName whose key comparison ignores letter case.
FoldCase(name) == IF name = "IDX1" THEN "idx1" ELSE name
hasIndexWithNameIgnoringCase(map, name) ==
  \E k \in DOMAIN map : FoldCase(k) = FoldCase(name)

\* hasIndexWithName(): index_map_.find(index_name) != index_map_.end()
hasIndexWithName(map, name) == \E k \in DOMAIN map : k = name

\* Variant of areIndexDescriptionsSimilar that also compares attribute ids.
areIndexDescriptionsSimilarWithAttributes(desc_a, desc_b) ==
  IF desc_a.sub_block_type # desc_b.sub_block_type THEN FALSE
  ELSE desc_a.indexed_attribute_ids = desc_b.indexed_attribute_ids

\* areIndexDescriptionsSimilar(): only the sub_block_type is compared.
areIndexDescriptionsSimilar(desc_a, desc_b) ==
  IF desc_a.sub_block_type # desc_b.sub_block_type THEN FALSE ELSE TRUE

\* Inner loop of hasIndexWithDescription over one vector, from position i.
RECURSIVE ScanDescriptions(_, _, _)
ScanDescriptions(descs, i, desc) ==
  IF i > Len(descs) THEN FALSE
  ELSE IF areIndexDescriptionsSimilar(descs[i], desc) THEN TRUE
  ELSE ScanDescriptions(descs, i + 1, desc)

\* Variant of ScanMap that gives up after the first vector it visits.
ScanMapFirstKeyOnly(map, order, k, desc) ==
  IF k > Len(order) THEN FALSE
  ELSE ScanDescriptions(map[order[k]], 1, desc)

\* Outer loop of hasIndexWithDescription over the map, from the k-th key.
RECURSIVE ScanMap(_, _, _, _)
ScanMap(map, order, k, desc) ==
  IF k > Len(order) THEN FALSE
  ELSE IF ScanDescriptions(map[order[k]], 1, desc) THEN TRUE
  ELSE ScanMap(map, order, k + 1, desc)

hasIndexWithDescription(map, order, desc) == ScanMap(map, order, 1, desc)

\* Variant of CopyDescriptions whose loop stops one element early.
RECURSIVE CopyDescriptionsStopsEarly(_, _, _)
CopyDescriptionsStopsEarly(descs, i, index_sub_block_descriptions) ==
  IF i >= Len(descs) THEN index_sub_block_descriptions
  ELSE CopyDescriptionsStopsEarly(descs, i + 1,
                                  Append(index_sub_block_descriptions, descs[i]))

\* Variant of CopyDescriptions that pushes each element at the front.
RECURSIVE CopyDescriptionsReversed(_, _, _)
CopyDescriptionsReversed(descs, i, index_sub_block_descriptions) ==
  IF i > Len(descs) THEN index_sub_block_descriptions
  ELSE CopyDescriptionsReversed(descs, i + 1,
                                <<descs[i]>> \o index_sub_block_descriptions)

\* The copy loop of addIndexMapEntry: emplace_back of each element in turn.
RECURSIVE CopyDescriptions(_, _, _)
CopyDescriptions(descs, i, index_sub_block_descriptions) ==
  IF i > Len(descs) THEN index_sub_block_descriptions
  ELSE CopyDescriptions(descs, i + 1, Append(index_sub_block_descriptions, descs[i]))

\* Variant of MapAssign with insert semantics: an existing entry is kept.
MapAssignKeepsExisting(map, name, descs) ==
  [k \in DOMAIN map \cup {name} |-> IF k \in DOMAIN map THEN map[k] ELSE descs]

\* Variant of MapAssign that replaces the whole map by the new entry.
MapAssignDropsOthers(map, name, descs) == [k \in {name} |-> descs]

\* index_map_[index_name] = index_sub_block_descriptions
MapAssign(map, name, descs) ==
  [k \in DOMAIN map \cup {name} |-> IF k = name THEN descs ELSE map[k]]

\* Variant of addIndexMapEntry without the check for an existing name.
addIndexMapEntryOverwrites(map, name, descs) ==
  [ret |-> TRUE, map |-> MapAssign(map, name, CopyDescriptions(descs, 1, <<>>))]

\* Variant of addIndexMapEntry that also rejects a list holding a description
\* similar to a stored one.
addIndexMapEntryChecksSimilar(map, name, descs) ==
  IF \/ hasIndexWithName(map, name)
     \/ \E i \in DOMAIN descs : \E k \in DOMAIN map : \E j \in DOMAIN map[k] :
          areIndexDescriptionsSimilar(map[k][j], descs[i])
    THEN [ret |-> FALSE, map |-> map]
    ELSE [ret |-> TRUE, map |-> MapAssign(map, name, CopyDescriptions(descs, 1, <<>>))]

\* Variant of addIndexMapEntry that refuses the empty name.
addIndexMapEntryRejectsEmptyName(map, name, descs) ==
  IF name = "" \/ hasIndexWithName(map, name)
    THEN [ret |-> FALSE, map |-> map]
    ELSE [ret |-> TRUE, map |-> MapAssign(map, name, CopyDescriptions(descs, 1, <<>>))]

\* addIndexMapEntry(): the value returned and the map left behind.
addIndexMapEntry(map, name, descs) ==
  IF hasIndexWithName(map, name)
    THEN [ret |-> FALSE, map |-> map]
    ELSE [ret |-> TRUE, map |-> MapAssign(map, name, CopyDescriptions(descs, 1, <<>>))]

\* getProto(): one entry per key, in enumeration order, holding the name and
\* each description in its stored order.
getProto(map, order) ==
  [k \in 1..Len(order) |->
     [index_name |-> order[k],
      index_descriptions |-> [j \in 1..Len(map[order[k]]) |-> map[order[k]][j]]]]

\* ReconstructFromProto(): the entries of the record registered in record
\* order, starting with entry i, in the registry built so far (a registry is
\* mutated only through the registration operation).
RECURSIVE ReconstructEntries(_, _, _)
ReconstructEntries(proto, i, map) ==
  IF i > Len(proto) THEN map
  ELSE ReconstructEntries(proto, i + 1,
         addIndexMapEntry(map, proto[i].index_name, proto[i].index_descriptions).map)

ReconstructFromProto(proto) == ReconstructEntries(proto, 1, EmptyMap)

----
Init ==
  /\ index_map_ = EmptyMap
  /\ iter_order = <<>>
  /\ op = "IndexScheme"
  /\ index_name = ""
  /\ index_description = NoDescs
  /\ ret_bool = FALSE
  /\ ret_size = 0
  /\ ret_proto = NoProto
  /\ ret_scheme = EmptyMap
  /\ succeeded = {}
  /\ threads = [t \in Threads |-> IdleThread]
  /\ lock = NoThread
  /\ assign_log = <<>>

CallAddIndexMapEntry(name, descs) ==
  /\ op' = "addIndexMapEntry"
  /\ index_name' = name
  /\ index_description' = NoDescs
  /\ index_map_' = addIndexMapEntry(index_map_, name, descs).map
  /\ ret_bool' = addIndexMapEntry(index_map_, name, descs).ret
  /\ IF DOMAIN index_map_' = DOMAIN index_map_
       THEN iter_order' = iter_order
       ELSE iter_order' \in Orders(DOMAIN index_map_')
  /\ succeeded' = IF ret_bool' THEN succeeded \cup {<<name, descs>>} ELSE succeeded
  /\ ret_size' = 0
  /\ ret_proto' = NoProto
  /\ ret_scheme' = EmptyMap
  /\ UNCHANGED thread_vars

\* Variant of the hasIndexWithName call that looks the name up with
\* index_map_[index_name], which inserts a missing key.
CallHasIndexWithNameInserts(name) ==
  /\ op' = "hasIndexWithName"
  /\ index_name' = name
  /\ index_description' = NoDescs
  /\ ret_bool' = hasIndexWithName(index_map_, name)
  /\ index_map_' = [k \in DOMAIN index_map_ \cup {name} |->
                      IF k \in DOMAIN index_map_ THEN index_map_[k] ELSE <<>>]
  /\ iter_order' = IF name \in DOMAIN index_map_ THEN iter_order
                   ELSE Append(iter_order, name)
  /\ ret_size' = 0
  /\ ret_proto' = NoProto
  /\ ret_scheme' = EmptyMap
  /\ UNCHANGED thread_vars
  /\ UNCHANGED succeeded

CallHasIndexWithName(name) ==
  /\ op' = "hasIndexWithName"
  /\ index_name' = name
  /\ index_description' = NoDescs
  /\ ret_bool' = hasIndexWithName(index_map_, name)
  /\ ret_size' = 0
  /\ ret_proto' = NoProto
  /\ ret_scheme' = EmptyMap
  /\ UNCHANGED thread_vars
  /\ UNCHANGED <<index_map_, iter_order, succeeded>>

CallHasIndexWithDescription(desc) ==
  /\ op' = "hasIndexWithDescription"
  /\ index_name' = ""
  /\ index_description' = <<desc>>
  /\ ret_bool' = hasIndexWithDescription(index_map_, iter_order, desc)
  /\ ret_size' = 0
  /\ ret_proto' = NoProto
  /\ ret_scheme' = EmptyMap
  /\ UNCHANGED thread_vars
  /\ UNCHANGED <<index_map_, iter_order, succeeded>>

CallGetNumIndices ==
  /\ op' = "getNumIndices"
  /\ index_name' = ""
  /\ index_description' = NoDescs
  /\ ret_bool' = FALSE
  /\ ret_size' = getNumIndices(index_map_)
  /\ ret_proto' = NoProto
  /\ ret_scheme' = EmptyMap
  /\ UNCHANGED thread_vars
  /\ UNCHANGED <<index_map_, iter_order, succeeded>>

CallGetProto ==
  /\ op' = "getProto"
  /\ index_name' = ""
  /\ index_description' = NoDescs
  /\ ret_bool' = FALSE
  /\ ret_size' = 0
  /\ ret_proto' = getProto(index_map_, iter_order)
  /\ ret_scheme' = EmptyMap
  /\ UNCHANGED thread_vars
  /\ UNCHANGED <<index_map_, iter_order, succeeded>>

\* ReconstructFromProto(proto) on a record previously produced by getProto().
CallReconstructFromProto ==
  /\ op = "getProto"
  /\ op' = "ReconstructFromProto"
  /\ index_name' = ""
  /\ index_description' = NoDescs
  /\ ret_bool' = FALSE
  /\ ret_size' = 0
  /\ ret_proto' = ret_proto
  /\ ret_scheme' = ReconstructFromProto(ret_proto)
  /\ UNCHANGED thread_vars
  /\ UNCHANGED <<index_map_, iter_order, succeeded>>

Next ==
  \/ \E name \in IndexNames, descs \in DescriptionLists : CallAddIndexMapEntry(name, descs)
  \/ \E name \in IndexNames : CallHasIndexWithName(name)
  \/ \E desc \in IndexSubBlockDescription : CallHasIndexWithDescription(desc)
  \/ CallGetNumIndices
  \/ CallGetProto
  \/ CallReconstructFromProto

Spec == Init /\ [][Next]_vars

\* addIndexMapEntry called by a caller that first checks hasIndexWithName for
\* the name and hasIndexWithDescription for every description of the list,
\* and registers only when all of them are false.
GuardedAddIndexMapEntry(name, descs) ==
  /\ ~hasIndexWithName(index_map_, name)
  /\ \A i \in DOMAIN descs :
       ~hasIndexWithDescription(index_map_, iter_order, descs[i])
  /\ CallAddIndexMapEntry(name, descs)

NextGuarded ==
  \/ \E name \in IndexNames, descs \in DescriptionLists :
       GuardedAddIndexMapEntry(name, descs)
  \/ \E name \in IndexNames : CallHasIndexWithName(name)
  \/ \E desc \in IndexSubBlockDescription : CallHasIndexWithDescription(desc)
  \/ CallGetNumIndices
  \/ CallGetProto
  \/ CallReconstructFromProto

SpecGuarded == Init /\ [][NextGuarded]_vars

----
\* addIndexMapEntry executed one statement at a time by the threads.

\* Left alone by every statement of addIndexMapEntry.
call_vars == <<op, index_name, index_description, ret_bool, ret_size,
               ret_proto, ret_scheme>>

\* Thread t enters addIndexMapEntry(name, descs).
StepCall(t, name, descs) ==
  /\ threads[t].pc = "idle"
  /\ threads' = [threads EXCEPT ![t] =
       [pc |-> "find", index_name |-> name, index_descriptions |-> descs,
        index_sub_block_descriptions |-> <<>>, i |-> 0, ret |-> FALSE]]
  /\ UNCHANGED <<index_map_, iter_order, succeeded, assign_log, call_vars>>

\* Variant of StepFind without the early return for a name already present.
StepFindSkipsCheck(t) ==
  /\ threads[t].pc = "find"
  /\ threads' = [threads EXCEPT ![t] =
       [@ EXCEPT !.pc = "loop", !.index_sub_block_descriptions = <<>>, !.i = 0]]
  /\ UNCHANGED <<index_map_, iter_order, succeeded, lock, assign_log, call_vars>>

\* Line 159-161: the lookup and the early return.
StepFind(t) ==
  /\ threads[t].pc = "find"
  /\ threads' = [threads EXCEPT ![t] =
       IF hasIndexWithName(index_map_, threads[t].index_name)
         THEN [@ EXCEPT !.pc = "return", !.ret = FALSE]
         ELSE [@ EXCEPT !.pc = "loop", !.index_sub_block_descriptions = <<>>,
                        !.i = 0]]
  /\ UNCHANGED <<index_map_, iter_order, succeeded, lock, assign_log, call_vars>>

\* Variant of StepLoop that appends to the vector inside the map
\* (index_map_[index_name].emplace_back) instead of the local one.
StepLoopWritesMap(t) ==
  /\ threads[t].pc = "loop"
  /\ IF threads[t].i < Len(threads[t].index_descriptions)
       THEN /\ threads' = [threads EXCEPT ![t] =
                 [@ EXCEPT !.index_sub_block_descriptions =
                             Append(@, threads[t].index_descriptions[threads[t].i + 1]),
                           !.i = @ + 1]]
            /\ index_map_' = MapAssign(index_map_, threads[t].index_name,
                 Append(threads[t].index_sub_block_descriptions,
                        threads[t].index_descriptions[threads[t].i + 1]))
            /\ IF DOMAIN index_map_' = DOMAIN index_map_
                 THEN iter_order' = iter_order
                 ELSE iter_order' \in Orders(DOMAIN index_map_')
       ELSE /\ threads' = [threads EXCEPT ![t] = [@ EXCEPT !.pc = "assign"]]
            /\ UNCHANGED <<index_map_, iter_order>>
  /\ UNCHANGED <<succeeded, lock, assign_log, call_vars>>

\* Line 164-167: the loop test and one emplace_back into the local vector.
StepLoop(t) ==
  /\ threads[t].pc = "loop"
  /\ threads' = [threads EXCEPT ![t] =
       IF threads[t].i < Len(threads[t].index_descriptions)
         THEN [@ EXCEPT !.index_sub_block_descriptions =
                          Append(@, threads[t].index_descriptions[threads[t].i + 1]),
                        !.i = @ + 1]
         ELSE [@ EXCEPT !.pc = "assign"]]
  /\ UNCHANGED <<index_map_, iter_order, succeeded, lock, assign_log, call_vars>>

\* Line 168-169: the single assignment into the map, then return true.
StepAssign(t) ==
  /\ threads[t].pc = "assign"
  /\ index_map_' = MapAssign(index_map_, threads[t].index_name,
                             threads[t].index_sub_block_descriptions)
  /\ IF DOMAIN index_map_' = DOMAIN index_map_
       THEN iter_order' = iter_order
       ELSE iter_order' \in Orders(DOMAIN index_map_')
  /\ assign_log' = Append(assign_log, t)
  /\ threads' = [threads EXCEPT ![t] = [@ EXCEPT !.pc = "return", !.ret = TRUE]]
  /\ UNCHANGED <<succeeded, lock, call_vars>>

\* The call returns to its caller.
StepReturn(t) ==
  /\ threads[t].pc = "return"
  /\ threads' = [threads EXCEPT ![t] = [@ EXCEPT !.pc = "done"]]
  /\ succeeded' = IF threads[t].ret
                    THEN succeeded \cup {<<threads[t].index_name,
                                           threads[t].index_descriptions>>}
                    ELSE succeeded
  /\ UNCHANGED <<index_map_, iter_order, assign_log, call_vars>>

\* The threads call with no synchronization: statements interleave freely.
NextSteps ==
  \/ \E t \in Threads, name \in IndexNames, descs \in StepLists :
       StepCall(t, name, descs) /\ UNCHANGED lock
  \/ \E t \in Threads : StepFind(t)
  \/ \E t \in Threads : StepLoop(t)
  \/ \E t \in Threads : StepAssign(t)
  \/ \E t \in Threads : StepReturn(t) /\ UNCHANGED lock

SpecSteps == Init /\ [][NextSteps]_vars

\* The owner's mutex taken before the call and held until it has returned.
LockedCall(t, name, descs) ==
  /\ lock = NoThread
  /\ lock' = t
  /\ StepCall(t, name, descs)

LockedReturn(t) ==
  /\ lock = t
  /\ lock' = NoThread
  /\ StepReturn(t)

NextLocked ==
  \/ \E t \in Threads, name \in IndexNames, descs \in StepLists :
       LockedCall(t, name, descs)
  \/ \E t \in Threads : StepFind(t)
  \/ \E t \in Threads : StepLoop(t)
  \/ \E t \in Threads : StepAssign(t)
  \/ \E t \in Threads : LockedReturn(t)

SpecLocked == Init /\ [][NextLocked]_vars

----
\* The same operations called with the names of CaseNames.
NextCase ==
  \/ \E name \in CaseNames, descs \in ShortLists : CallAddIndexMapEntry(name, descs)
  \/ \E name \in CaseNames : CallHasIndexWithName(name)
  \/ \E desc \in IndexSubBlockDescription : CallHasIndexWithDescription(desc)
  \/ CallGetNumIndices
  \/ CallGetProto
  \/ CallReconstructFromProto

SpecCase == Init /\ [][NextCase]_vars

----
\* Names for which an addIndexMapEntry call has returned true.
Registered == {p[1] : p \in succeeded}

\* Some stored description carries the sub_block_type of desc.
StoredTypeMatches(map, desc) ==
  \E k \in DOMAIN map : \E i \in DOMAIN map[k] :
    map[k][i].sub_block_type = desc.sub_block_type

\* C1: name uniqueness. Once addIndexMapEntry(n, d1) has returned true, every
\* later addIndexMapEntry(n, d2) returns false and leaves the whole map
\* unchanged, so the list stored under n is still d1.
C1_NameUniqueness ==
  [][(op' = "addIndexMapEntry" /\ index_name' \in Registered)
       => /\ ret_bool' = FALSE
          /\ index_map_' = index_map_
          /\ index_name' \in DOMAIN index_map_'
          /\ \A p \in succeeded :
               p[1] = index_name' => index_map_'[index_name'] = p[2]]_vars

C1_Witness ==
  /\ op = "addIndexMapEntry"
  /\ ret_bool = FALSE
  /\ index_name \in Registered
  /\ \E p \in succeeded : p[1] = index_name /\ Len(p[2]) = 2

\* C2: count consistency. getNumIndices equals the number of distinct names
\* for which addIndexMapEntry returned true; it is 0 on the empty registry and
\* a failing addIndexMapEntry never changes it.
C2_CountConsistency ==
  /\ [](/\ getNumIndices(index_map_) = Cardinality(Registered)
        /\ (op = "getNumIndices" => ret_size = Cardinality(Registered))
        /\ (succeeded = {} => getNumIndices(index_map_) = 0))
  /\ [][(op' = "addIndexMapEntry" /\ ret_bool' = FALSE)
          => getNumIndices(index_map_') = getNumIndices(index_map_)]_vars

C2_Witness ==
  /\ op = "getNumIndices"
  /\ ret_size = 2
  /\ \E k \in DOMAIN index_map_ : Len(index_map_[k]) # 1

\* C3: hasIndexWithName(name) is true iff name is a key of the map, i.e. iff
\* some earlier addIndexMapEntry(name, _) returned true; the comparison is
\* exact (case-sensitive) and on the empty registry it is false for every name.
C3_HasNameIffRegistered ==
  /\ \A name \in CaseNames \cup IndexNames :
       /\ hasIndexWithName(index_map_, name) <=> name \in Registered
       /\ name \in DOMAIN index_map_ <=> name \in Registered
       /\ succeeded = {} => ~hasIndexWithName(index_map_, name)
  /\ op = "hasIndexWithName" => ret_bool = (index_name \in Registered)

C3_Witness ==
  /\ op = "hasIndexWithName"
  /\ index_name = "IDX1"
  /\ ret_bool = FALSE
  /\ "idx1" \in Registered

C6_RoundTrip ==
  /\ \A order \in Orders(DOMAIN index_map_) :
       ReconstructFromProto(getProto(index_map_, order)) = index_map_
  /\ op = "ReconstructFromProto"
       => /\ ret_scheme = index_map_
          /\ DOMAIN ret_scheme = Registered
          /\ \A p \in succeeded : ret_scheme[p[1]] = p[2]
          /\ getNumIndices(ret_scheme) = getNumIndices(index_map_)
          /\ \A name \in IndexNames \cup CaseNames :
               hasIndexWithName(ret_scheme, name) = hasIndexWithName(index_map_, name)

C6_Witness ==
  /\ op = "ReconstructFromProto"
  /\ getNumIndices(ret_scheme) = 2
  /\ \E k \in DOMAIN ret_scheme :
       Len(ret_scheme[k]) = 2 /\ ret_scheme[k][1] # ret_scheme[k][2]

\* C7: monotonic growth. Across every step the map only grows: a (name, list)
\* pair present in a state is present with the identical list in the next
\* state, whatever operation is called.
C7_MonotonicGrowth ==
  [][\A k \in DOMAIN index_map_ :
       k \in DOMAIN index_map_' /\ index_map_'[k] = index_map_[k]]_vars

C7_Witness ==
  /\ op = "addIndexMapEntry"
  /\ ret_bool = TRUE
  /\ getNumIndices(index_map_) = 2
  /\ \A k \in DOMAIN index_map_ : Len(index_map_[k]) = 2

\* C8 as stated (invariant I2): immediately after every addIndexMapEntry call
\* that returns true the list stored under the registered name is non-empty,
\* for every list the caller may pass, the empty one included.
C8_Original ==
  (op = "addIndexMapEntry" /\ ret_bool = TRUE)
    => Len(index_map_[index_name]) > 0

\* C8 as amended: immediately after every addIndexMapEntry call that returns
\* true the list stored under the registered name has the length of the list
\* passed in, so it is non-empty exactly when the caller passed a non-empty
\* list; a call passing the empty list also returns true and stores an empty
\* list.
C8_StoredLengthIsPassedLength ==
  (op = "addIndexMapEntry" /\ ret_bool = TRUE)
    => /\ index_name \in DOMAIN index_map_
       /\ \E p \in succeeded : p[1] = index_name
       /\ \A p \in succeeded :
            p[1] = index_name
              => /\ Len(index_map_[index_name]) = Len(p[2])
                 /\ (Len(index_map_[index_name]) > 0 <=> p[2] # <<>>)

C8_Witness ==
  /\ op = "addIndexMapEntry"
  /\ ret_bool = TRUE
  /\ Len(index_map_[index_name]) = 1
  /\ \E k \in DOMAIN index_map_ : index_map_[k] = <<>>

\* C9 as stated (invariant I1): in every reachable state every key of the map
\* is a non-empty string, for every name the caller may pass (the empty
\* string included), and no name appears as a key more than once.
C9_Original ==
  /\ \A k \in DOMAIN index_map_ : k # ""
  /\ \A i, j \in DOMAIN iter_order : iter_order[i] = iter_order[j] => i = j

\* C9 as amended: in every reachable state the keys of the map are exactly
\* the names passed to the addIndexMapEntry calls that returned true, the
\* empty string included when a caller passed it, and no name appears as a
\* key more than once: each key is enumerated once and was registered by
\* exactly one successful call.
C9_KeysAreRegisteredNamesOnce ==
  /\ DOMAIN index_map_ = Registered
  /\ Len(iter_order) = Cardinality(DOMAIN index_map_)
  /\ \A k \in DOMAIN index_map_ :
       /\ Cardinality({i \in DOMAIN iter_order : iter_order[i] = k}) = 1
       /\ Cardinality({p \in succeeded : p[1] = k}) = 1
  /\ (op = "addIndexMapEntry" /\ index_name = "" => "" \in DOMAIN index_map_)

C9_Witness ==
  /\ op = "addIndexMapEntry"
  /\ index_name = ""
  /\ ret_bool = FALSE
  /\ "" \in DOMAIN index_map_
  /\ getNumIndices(index_map_) = 3

\* C10: addIndexMapEntry checks only name uniqueness, never similarity: for
\* every name n that is not yet a key, addIndexMapEntry(n, d) returns true and
\* installs d, also when a description of d has the sub_block_type of a
\* description stored under another name.
C10_OnlyNameIsChecked ==
  [][(op' = "addIndexMapEntry" /\ index_name' \notin DOMAIN index_map_)
       => /\ ret_bool' = TRUE
          /\ index_name' \in DOMAIN index_map_'
          /\ <<index_name', index_map_'[index_name']>> \in succeeded' \ succeeded]_vars

C10_Witness ==
  /\ op = "addIndexMapEntry"
  /\ ret_bool = TRUE
  /\ \E k \in DOMAIN index_map_ \ {index_name} :
       \E i \in DOMAIN index_map_[k] : \E j \in DOMAIN index_map_[index_name] :
         index_map_[k][i].sub_block_type = index_map_[index_name][j].sub_block_type

\* C11 as stated: two descriptions are similar iff they have the same
\* attribute ids and the same index type, and hasIndexWithDescription returns
\* true only when a stored description has the attribute ids and the type of
\* the given one.
C11_Original ==
  op = "hasIndexWithDescription"
    => /\ \A k \in DOMAIN index_map_ : \A i \in DOMAIN index_map_[k] :
            areIndexDescriptionsSimilar(index_map_[k][i], index_description[1])
              <=> /\ index_map_[k][i].sub_block_type
                       = index_description[1].sub_block_type
                  /\ index_map_[k][i].indexed_attribute_ids
                       = index_description[1].indexed_attribute_ids
       /\ ret_bool = TRUE
            => \E k \in DOMAIN index_map_ : \E i \in DOMAIN index_map_[k] :
                 /\ index_map_[k][i].sub_block_type
                      = index_description[1].sub_block_type
                 /\ index_map_[k][i].indexed_attribute_ids
                      = index_description[1].indexed_attribute_ids

\* C12: a successful addIndexMapEntry(name, descriptions) stores under name a
\* list equal to the argument (same length, the i-th stored description is the
\* i-th one passed), and leaves the lists under all other names unchanged.
C12_StoresArgumentInOrder ==
  [][(op' = "addIndexMapEntry" /\ ret_bool' = TRUE)
       => /\ index_name' \in DOMAIN index_map_'
          /\ \E p \in succeeded' \ succeeded : p[1] = index_name'
          /\ \A p \in succeeded' \ succeeded :
               /\ p[1] = index_name'
               /\ Len(index_map_'[index_name']) = Len(p[2])
               /\ \A i \in 1..Len(p[2]) : index_map_'[index_name'][i] = p[2][i]
          /\ DOMAIN index_map_' = DOMAIN index_map_ \cup {index_name'}
          /\ \A k \in DOMAIN index_map_ \ {index_name'} :
               index_map_'[k] = index_map_[k]]_vars

C12_Witness ==
  /\ op = "addIndexMapEntry"
  /\ ret_bool = TRUE
  /\ Len(index_map_[index_name]) = 2
  /\ index_map_[index_name][1] # index_map_[index_name][2]
  /\ \E k \in DOMAIN index_map_ : k # index_name /\ Len(index_map_[k]) > 0

\* C14: getNumIndices, hasIndexWithName and hasIndexWithDescription leave the
\* map unchanged for every argument and every registry state, and a query
\* repeated right after itself with the same argument returns the same result.
QueryOps == {"getNumIndices", "hasIndexWithName", "hasIndexWithDescription"}

C14_QueriesArePure ==
  [][op' \in QueryOps
       => /\ index_map_' = index_map_
          /\ iter_order' = iter_order
          /\ (op' = "getNumIndices" => ret_size' = getNumIndices(index_map_'))
          /\ (op' = "hasIndexWithName"
                => ret_bool' = hasIndexWithName(index_map_', index_name'))
          /\ (op' = "hasIndexWithDescription"
                => ret_bool' = hasIndexWithDescription(index_map_', iter_order',
                                                       index_description'[1]))
          /\ ((op = op' /\ index_name = index_name'
                        /\ index_description = index_description')
                => (ret_bool' = ret_bool /\ ret_size' = ret_size))]_vars

C14_Witness ==
  /\ op = "hasIndexWithName"
  /\ ret_bool = FALSE
  /\ getNumIndices(index_map_) = 1
  /\ index_name \notin DOMAIN index_map_

Returned == {t \in Threads : threads[t].pc \in {"return", "done"}}

\* Threads whose call returned true.
ReturnedTrue == {t \in Returned : threads[t].ret = TRUE}

\* C13: registration atomicity. With addIndexMapEntry run statement by
\* statement (lookup, element-by-element copy into the local vector, single
\* assignment into the map), in every intermediate state the map has no entry
\* for the name or holds a complete list passed in; a partially copied list is
\* never visible under the name.
C13_NoPartialListVisible ==
  /\ \A n \in DOMAIN index_map_ :
       \E t \in ReturnedTrue :
         /\ threads[t].index_name = n
         /\ index_map_[n] = threads[t].index_descriptions
  /\ \A t \in Threads :
       threads[t].pc \in {"loop", "assign"}
         => \/ threads[t].index_name \notin DOMAIN index_map_
            \/ \E u \in Threads \ {t} :
                 /\ threads[u].index_name = threads[t].index_name
                 /\ index_map_[threads[t].index_name] = threads[u].index_descriptions

C13_Witness ==
  \E t \in Threads :
    /\ threads[t].pc = "loop"
    /\ threads[t].i = 1
    /\ Len(threads[t].index_descriptions) = 2
    /\ threads[t].index_name \notin DOMAIN index_map_
    /\ index_map_ # EmptyMap

\* C15: with the external mutex held for the whole of each call, of the
\* threads calling addIndexMapEntry with the same name exactly one returns
\* true, all others return false, and the list finally stored under the name
\* is the one passed by the call that returned true.
C15_LockedOneWinner ==
  \A n \in IndexNames :
    LET callers == {t \in Returned : threads[t].index_name = n}
        winners == {t \in callers : threads[t].ret = TRUE}
    IN  callers # {}
          => /\ Cardinality(winners) = 1
             /\ \A t \in callers \ winners : threads[t].ret = FALSE
             /\ n \in DOMAIN index_map_
             /\ \A w \in winners : index_map_[n] = threads[w].index_descriptions

C15_Witness ==
  /\ \A t \in Threads : threads[t].pc = "done"
  /\ threads["t1"].index_name = threads["t2"].index_name
  /\ threads["t1"].index_descriptions # threads["t2"].index_descriptions
  /\ threads["t2"].ret = TRUE
  /\ Len(threads["t1"].index_descriptions) = 2

\* The thread that executed the latest assignment under name n.
LastAssigner(n) ==
  LET idx == {i \in DOMAIN assign_log : threads[assign_log[i]].index_name = n}
  IN  assign_log[CHOOSE i \in idx : \A j \in idx : j <= i]

\* C16: without the lock, when the lookups and assignments of two calls for
\* the same name interleave so that both return true, the list stored under
\* the name is that of the later assignment only and getNumIndices is lower
\* than the number of calls that returned true.
C16_UnlockedLostUpdate ==
  \A t, u \in ReturnedTrue :
    (t # u /\ threads[t].index_name = threads[u].index_name)
      => /\ threads[t].index_name \in DOMAIN index_map_
         /\ index_map_[threads[t].index_name]
              = threads[LastAssigner(threads[t].index_name)].index_descriptions
         /\ getNumIndices(index_map_) < Cardinality(ReturnedTrue)

C16_Witness ==
  /\ \A t \in Threads : threads[t].pc = "done" /\ threads[t].ret = TRUE
  /\ threads["t1"].index_name = threads["t2"].index_name
  /\ threads["t1"].index_descriptions # threads["t2"].index_descriptions
  /\ index_map_[threads["t1"].index_name] = threads["t2"].index_descriptions
  /\ getNumIndices(index_map_) = 1
====
